---- MODULE Spec2Model ----
(***************************************************************************)
(* Model of MeanReversionPortfolio (src/Analysis/mean_reversion_portfolio  *)
(* .py): the return panel, the two weight allocators, the performance      *)
(* compounder and the scenario runner.                                     *)
(*                                                                         *)
(* Numbers.  Returns are integers in units of 0.01 (the panel of the       *)
(* concrete scenario is A = 1, 2, -1 ...).  A weight 1/n is the integer    *)
(* Scale \div n, where Scale is a common multiple of every n the model     *)
(* can produce, so weights, portfolio returns and cumulative returns are   *)
(* exact: a portfolio return r stands for r * 0.01 / Scale.                *)
(* A cell of a table is <<>> (pandas NaN, "no value") or <<v>>.            *)
(* Periods are numbered 1..Len(panel); a date is its period number.        *)
(* Tickers are numbered 1..n in the column order of the panel.             *)
(***************************************************************************)
EXTENDS Integers, Sequences, FiniteSets, TLC

VARIABLES
    data,                \* self.data: the return panel, or None
    weights,             \* self.weights: the weight table, or None
    performance,         \* self.performance: the performance series, or None
    percentile_results,  \* self.percentile_results: label -> performance series
    last,                \* the last call made on the engine
    weights_by,          \* the allocator call that wrote self.weights last
    tie_break,           \* the order the build's sort leaves tied values in
    identity,            \* which object self.performance and each stored series is
    returned,            \* what the last call returned
    loop                 \* the per-band steps of a scenario run taken one at a time

vars == <<data, weights, performance, percentile_results, last, weights_by, tie_break,
          identity, returned, loop>>

----------------------------------------------------------------------------
(* Bounds of the model *)

\* largest absolute return of the generated panels, in units of 0.01
MaxRet == 2

\* number of tickers of the generated panels
NumTickers == 3

\* the widest panel of the model (the concrete scenario has four tickers)
MaxTickers == IF NumTickers > 4 THEN NumTickers ELSE 4

----------------------------------------------------------------------------
(* Cells *)

\* the sequence with the elements of f, evaluated once
Tup(f) == f \o <<>>

NaN == <<>>

Val(v) == <<v>>

IsNaN(c) == c = <<>>

NotNaN(c) == c # <<>>

Get(c) == c[1]

Min(a, b) == IF a <= b THEN a ELSE b

Max(a, b) == IF a >= b THEN a ELSE b

RECURSIVE SumTo(_, _)
\* sum of f[1..n], f a sequence of integers
SumTo(f, n) == IF n = 0 THEN 0 ELSE f[n] + SumTo(f, n - 1)

RECURSIVE Gcd(_, _)
Gcd(a, b) == IF b = 0 THEN a ELSE Gcd(b, a % b)

RECURSIVE LcmUpTo(_)
LcmUpTo(n) == IF n <= 1 THEN 1 ELSE (LcmUpTo(n - 1) * n) \div Gcd(LcmUpTo(n - 1), n)

----------------------------------------------------------------------------
(* Python helpers *)

\* int(x / 100) for an integer x: truncation towards zero
IntDiv100(x) == IF x >= 0 THEN x \div 100 ELSE -((-x) \div 100)

\* a slice bound as list slicing normalises it
SliceBound(i, n) == IF i < 0 THEN Max(i + n, 0) ELSE Min(i, n)

\* seq[start:end] of a Python list (0-based, end exclusive, bounds clipped)
PySlice(seq, start, end) ==
    LET lo == SliceBound(start, Len(seq))
        hi == SliceBound(end, Len(seq))
    IN  IF lo >= hi THEN <<>> ELSE SubSeq(seq, lo + 1, hi)

----------------------------------------------------------------------------
(* Ranking: Series.sort_values(ascending=False) *)

\* The orders a sort of kind "quicksort" can leave tied values in: the
\* column order ("stable") or its reverse ("reversed"); which one is a
\* property of the numpy build, fixed for the life of the engine.
TieBreaks == {"stable", "reversed"}

\* ticker i is placed before ticker j: larger value first, NaN last (NaNs
\* keep their column order)
Precedes(row, i, j, tb) ==
    IF NotNaN(row[i]) /\ NotNaN(row[j])
    THEN \/ Get(row[i]) > Get(row[j])
         \/ /\ Get(row[i]) = Get(row[j])
            /\ IF tb = "stable" THEN i < j ELSE i > j
    ELSE IF NotNaN(row[i]) THEN TRUE
    ELSE IF NotNaN(row[j]) THEN FALSE
    ELSE i < j

\* sorted_row.index.tolist(): the tickers in descending order of value
SortValues(row, tb) ==
    Tup([p \in 1..Len(row) |->
            CHOOSE i \in 1..Len(row) :
                Cardinality({j \in 1..Len(row) : j # i /\ Precedes(row, j, i, tb)}) = p - 1])

\* mutant: the eligible count is the length of the whole sorted row
CountWholeRow(row) == Len(row)

\* len(sorted_row.dropna())
CountValued(row) == Cardinality({k \in 1..Len(row) : NotNaN(row[k])})

\* row.isnull().all()
AllNull(row) == \A k \in 1..Len(row) : IsNaN(row[k])

----------------------------------------------------------------------------
(* Weight allocation *)

\* the largest percentile a caller passes in the model
MaxPct == 150

\* the largest amount_of_holdings the model can produce
MaxHoldings == Max(1, (MaxPct * MaxTickers) \div 100)

\* the integer that stands for the weight 1.0
Scale == LcmUpTo(MaxHoldings)

\* mutant: the band is taken as written, (top, bottom) = (high, low)
PctMinIsBottom(top_percentile, bottom_percentile) == bottom_percentile

\* pct_min = min(top_percentile, bottom_percentile)
PctMin(top_percentile, bottom_percentile) == Min(top_percentile, bottom_percentile)

\* pct_max = max(top_percentile, bottom_percentile)
PctMax(top_percentile, bottom_percentile) == Max(top_percentile, bottom_percentile)

\* start_index = int(pct_min * l / 100)
StartIndex(pct_min, l) == IntDiv100(pct_min * l)

\* end_index = int(pct_max * l / 100)
EndIndex(pct_max, l) == IntDiv100(pct_max * l)

\* mutant: the holdings are counted from the top of the ranking
AmountFromEndOnly(start_index, end_index) == Max(1, end_index)

\* amount_of_holdings = max(1, end_index - start_index)
AmountOfHoldings(start_index, end_index) == Max(1, end_index - start_index)

\* mutant: every selected ticker is given the whole portfolio
TickerWeightWhole(amount_of_holdings) == Scale

\* ticker_weight = 1 / amount_of_holdings
TickerWeight(amount_of_holdings) == Scale \div amount_of_holdings

\* selected_tickers = sorted_tickers[start_index:end_index]
SelectedTickers(sorted_tickers, start_index, end_index) ==
    PySlice(sorted_tickers, start_index, end_index)

\* ticker_to_weight of one period: 0.0 for every ticker of the sorted row,
\* then ticker_weight for the selected ones; l is the population size the
\* caller computed
TickerToWeight(sorted_tickers, l, pct_min, pct_max) ==
    LET start_index == StartIndex(pct_min, l)
        end_index == EndIndex(pct_max, l)
        ticker_weight == TickerWeight(AmountOfHoldings(start_index, end_index))
        selected == SelectedTickers(sorted_tickers, start_index, end_index)
    IN  Tup([k \in 1..Len(sorted_tickers) |->
                IF \E p \in 1..Len(selected) : selected[p] = k
                THEN ticker_weight ELSE 0])

\* the rows compute_weights_last_month_direction appends: one per period of
\* the panel, ranked on the period's own returns, l = len(sorted_row)
LastMonthDirectionRows(panel, top_percentile, bottom_percentile, tb) ==
    Tup([t \in 1..Len(panel) |->
            [date |-> t,
             w |-> TickerToWeight(SortValues(panel[t], tb), Len(panel[t]),
                                  PctMin(top_percentile, bottom_percentile),
                                  PctMax(top_percentile, bottom_percentile))]])

\* the 12 of rolling(window=12)
Window == 12

\* DataFrame.rolling(window).sum() at period t for ticker k: NaN until the
\* window is full (min_periods = window) or when a return of it is NaN
RollingSum(panel, window, t, k) ==
    IF t < window THEN NaN
    ELSE IF \E u \in (t - window + 1)..t : IsNaN(panel[u][k]) THEN NaN
    ELSE Val(SumTo([i \in 1..window |-> Get(panel[t - window + i][k])], window))

\* a - b on cells: NaN when either is NaN
CellMinus(a, b) == IF IsNaN(a) \/ IsNaN(b) THEN NaN ELSE Val(Get(a) - Get(b))

\* mutant: the last month is not taken out of the twelve-month return
SignalCellTwelveMonths(panel, t, k) == RollingSum(panel, Window, t, k)

\* one cell of twelve_month_return - one_month_return
SignalCell(panel, t, k) ==
    CellMinus(RollingSum(panel, Window, t, k), RollingSum(panel, 1, t, k))

\* momentum_signal = twelve_month_return - one_month_return
MomentumSignal(panel) ==
    Tup([t \in 1..Len(panel) |->
            Tup([k \in 1..Len(panel[t]) |-> SignalCell(panel, t, k)])])

\* the signal rows the momentum loop does not skip
KeptSignalRows(signal) ==
    SelectSeq(Tup([t \in 1..Len(signal) |-> [date |-> t, sig |-> signal[t]]]),
              LAMBDA r : ~AllNull(r.sig) /\ CountValued(r.sig) # 0)

\* the rows compute_weight_momentum_12_minus_1 appends: one per period
\* with a signal, ranked on the signal, l = len(sorted_row.dropna())
MomentumRows(panel, top_percentile, bottom_percentile, tb) ==
    LET kept == KeptSignalRows(MomentumSignal(panel))
    IN  Tup([i \in 1..Len(kept) |->
                [date |-> kept[i].date,
                 w |-> TickerToWeight(SortValues(kept[i].sig, tb),
                                      CountValued(kept[i].sig),
                                      PctMin(top_percentile, bottom_percentile),
                                      PctMax(top_percentile, bottom_percentile))]])

----------------------------------------------------------------------------
(* Performance *)

\* a field that is still None
NoFrame == [kind |-> "None", rows |-> <<>>]

\* a DataFrame with its index set
Frame(rows) == [kind |-> "frame", rows |-> rows]

\* pd.DataFrame([]) before set_index("date") raised KeyError on it
EmptyFrame == [kind |-> "noindex", rows |-> <<>>]

\* mutant: the weights are not lagged
ShiftedWeightsNoLag(wrows) ==
    Tup([i \in 1..Len(wrows) |->
            [date |-> wrows[i].date,
             w |-> Tup([k \in 1..Len(wrows[i].w) |-> Val(wrows[i].w[k])])]])

\* effective_weights = self.weights.shift(1): every row carries the weights
\* of the row before it in the weight table, the first row is all NaN
ShiftedWeights(wrows) ==
    Tup([i \in 1..Len(wrows) |->
            [date |-> wrows[i].date,
             w |-> Tup([k \in 1..Len(wrows[i].w) |->
                           IF i = 1 THEN NaN ELSE Val(wrows[i - 1].w[k])])]])

\* a * b on cells: NaN when either is NaN
CellTimes(a, b) == IF IsNaN(a) \/ IsNaN(b) THEN NaN ELSE Val(Get(a) * Get(b))

\* the elements of a set of dates, in ascending order
Ascending(dates) ==
    IF dates = 1..Cardinality(dates)
    THEN Tup([p \in 1..Cardinality(dates) |-> p])
    ELSE Tup([p \in 1..Cardinality(dates) |->
                 CHOOSE d \in dates : Cardinality({e \in dates : e < d}) = p - 1])

\* weighted_returns = effective_weights * self.data, aligned on (date,
\* ticker): one row for every date either table has, and a date that one
\* of the two does not have is all NaN
WeightedReturns(effective_weights, panel) ==
    LET dates == Ascending((1..Len(panel))
                     \cup {effective_weights[i].date : i \in 1..Len(effective_weights)})
    IN  Tup([p \in 1..Len(dates) |->
                [date |-> dates[p],
                 cells |->
                     IF /\ dates[p] \in 1..Len(panel)
                        /\ \E i \in 1..Len(effective_weights) :
                               effective_weights[i].date = dates[p]
                     THEN LET i == CHOOSE j \in 1..Len(effective_weights) :
                                       effective_weights[j].date = dates[p]
                          IN  Tup([k \in 1..Len(panel[dates[p]]) |->
                                      CellTimes(effective_weights[i].w[k],
                                                panel[dates[p]][k])])
                     ELSE Tup([k \in 1..Len(panel[1]) |-> NaN])]])

\* Series.sum(axis=1) of one row: NaN cells are skipped, and the sum of a
\* row with nothing but NaN is 0
SumSkipNa(row) ==
    Val(SumTo([k \in 1..Len(row) |-> IF IsNaN(row[k]) THEN 0 ELSE Get(row[k])], Len(row)))

\* self.performance["portfolio_log_return"] after dropna(): the rows whose
\* portfolio return is not NaN
PortfolioLogReturn(weighted_returns) ==
    SelectSeq(Tup([p \in 1..Len(weighted_returns) |->
                      [date |-> weighted_returns[p].date,
                       ret |-> SumSkipNa(weighted_returns[p].cells)]]),
              LAMBDA r : NotNaN(r.ret))

\* mutant: the column is the period return itself, nothing is added up
NoRunningSum(x, i) == x[i]

\* Series.cumsum() at its i-th row
CumSum(x, i) == SumTo(x, i)

\* mutant: the start value is left out
IndexLevelWithoutStart(start_index, cumulative_log_return) ==
    [start |-> 1, exp_of |-> cumulative_log_return]

\* start_index * np.exp(cumulative_log_return), kept symbolic
IndexLevel(start_index, cumulative_log_return) ==
    [start |-> start_index, exp_of |-> cumulative_log_return]

\* the table compute_index_level_and_returns builds from a weight table
ComputePerformance(wrows, panel, start_index) ==
    LET plr == PortfolioLogReturn(WeightedReturns(ShiftedWeights(wrows), panel))
        cum(i) == CumSum(Tup([j \in 1..Len(plr) |-> Get(plr[j].ret)]), i)
    IN  Tup([i \in 1..Len(plr) |->
                [date |-> plr[i].date,
                 portfolio_log_return |-> Get(plr[i].ret),
                 cumulative_log_return |-> cum(i),
                 index_level |-> IndexLevel(start_index, cum(i))]])

----------------------------------------------------------------------------
(* Scenario runner *)

\* the start_index the scenario runner passes, and the default
StartIndexValue == 100

\* mutant: the label is built from the normalised band
KeyNameNormalized(top_p, bottom_p) ==
    "Top " \o ToString(Max(top_p, bottom_p)) \o "% / Bottom "
           \o ToString(Min(top_p, bottom_p)) \o "%"

\* key_name = f"Top {top_p}% / Bottom {bottom_p}%"
KeyName(top_p, bottom_p) ==
    "Top " \o ToString(top_p) \o "% / Bottom " \o ToString(bottom_p) \o "%"

\* d[key] = value on a dict (insertion-ordered): a present key keeps its
\* place and takes the new value, a new key goes to the end
DictPut(d, key, value) ==
    IF \E i \in 1..Len(d) : d[i].key = key
    THEN Tup([i \in 1..Len(d) |->
                 IF d[i].key = key THEN [key |-> key, value |-> value] ELSE d[i]])
    ELSE Append(d, [key |-> key, value |-> value])

\* the record of a call: which method, its arguments, and whether it
\* raised
Call(op, top, bottom, bands, raised) ==
    [op |-> op, top |-> top, bottom |-> bottom, bands |-> bands, raised |-> raised]

\* a call of compute_weight_momentum_12_minus_1
MomentumCall(top, bottom, raised) ==
    Call("momentum_12_minus_1", top, bottom, <<>>, raised)

\* the identity of a field that is None
NoObject == 0

\* the objects stored under the labels
Held(ids) ==
    {ids.percentile_results[i].value : i \in 1..Len(ids.percentile_results)}

\* the objects the engine holds: the one self.performance names and the
\* ones stored under the labels
Live(ids) == {ids.performance} \cup Held(ids)

\* pd.DataFrame(): a new object, one that no field holds yet
NewObject(live) ==
    CHOOSE n \in 1..(Cardinality(live) + 1) :
        n \notin live /\ \A m \in 1..(n - 1) : m \in live

\* mutant: the series is stored as it is, not as a copy
CopyIsSameObject(obj, live) == obj

\* perf_df.copy(): a new object with the contents of perf_df
Copy(obj, live) == NewObject(live)

\* self.percentile_results = {}
ResultsReset(results) == <<>>

RECURSIVE RunPercentiles(_, _, _, _, _)
\* the loop of construct_performances_for_percentiles from its i-th pair
\* on; acc holds the fields the loop has written so far
RunPercentiles(panel, percentiles, i, acc, tb) ==
    IF i > Len(percentiles) THEN acc
    ELSE LET top_p == percentiles[i][1]
             bottom_p == percentiles[i][2]
             rows == MomentumRows(panel, top_p, bottom_p, tb)
         IN  IF Len(rows) = 0
             THEN [acc EXCEPT !.weights = EmptyFrame,
                              !.weights_by = MomentumCall(top_p, bottom_p, TRUE),
                              !.raised = TRUE]
             ELSE LET perf_df == ComputePerformance(rows, panel, StartIndexValue)
                      perf_obj == NewObject(Held(acc.identity))
                      held == [acc.identity EXCEPT !.performance = perf_obj]
                  IN  RunPercentiles(panel, percentiles, i + 1,
                          [weights |-> Frame(rows),
                           weights_by |-> MomentumCall(top_p, bottom_p, FALSE),
                           performance |-> Frame(perf_df),
                           percentile_results |->
                               DictPut(acc.percentile_results,
                                       KeyName(top_p, bottom_p), perf_df),
                           identity |->
                               [held EXCEPT !.percentile_results =
                                   DictPut(held.percentile_results,
                                           KeyName(top_p, bottom_p),
                                           Copy(perf_obj, Live(held)))],
                           raised |-> FALSE],
                          tb)

----------------------------------------------------------------------------
(* Aggregate statistics *)

\* the portfolio_log_return column of a stored series
ReturnsOf(perf_df) == Tup([i \in 1..Len(perf_df) |-> perf_df[i].portfolio_log_return])

\* the sum of the squares of x[1..n]
SumSquares(x, n) == SumTo([i \in 1..n |-> x[i] * x[i]], n)

\* Series.mean(): NaN on no row, else the sum over the count, kept as the
\* pair of the two
Mean(x) == IF Len(x) = 0 THEN NaN ELSE Val(<<SumTo(x, Len(x)), Len(x)>>)

\* Series.std() (ddof = 1): NaN on fewer than two rows, else the square
\* root of (n * sum(x^2) - sum(x)^2) / (n * (n - 1)), kept as the pair of
\* the two under the root
Std(x) ==
    IF Len(x) < 2 THEN NaN
    ELSE Val(<<Len(x) * SumSquares(x, Len(x)) - SumTo(x, Len(x)) * SumTo(x, Len(x)),
               Len(x) * (Len(x) - 1)>>)

\* what a call returns: nothing (it raised), None, the object a field
\* names, or a new Series of one statistic per label
Raised == [kind |-> "raised", entries |-> <<>>]

ReturnedNone == [kind |-> "None", entries |-> <<>>]

ReturnedObject(obj) == [kind |-> "object", entries |-> <<obj>>]

ReturnedSeries(name, entries) == [kind |-> name, entries |-> entries]

\* mutant: an empty store is not told apart, the Series has no entry
AverageOfAnyStore(results) ==
    ReturnedSeries("Average HPR (Log)",
        Tup([i \in 1..Len(results) |->
                [key |-> results[i].key,
                 value |-> Mean(ReturnsOf(results[i].value))]]))

\* construct_portfolio_average_holding_period_returns
AverageHoldingPeriodReturns(results) ==
    IF Len(results) = 0 THEN ReturnedNone
    ELSE ReturnedSeries("Average HPR (Log)",
             Tup([i \in 1..Len(results) |->
                     [key |-> results[i].key,
                      value |-> Mean(ReturnsOf(results[i].value))]]))

\* construct_portfolio_average_standard_deviation_for_holding_period_return
AverageStandardDeviation(results) ==
    IF Len(results) = 0 THEN ReturnedNone
    ELSE ReturnedSeries("Std Dev HPR (Log)",
             Tup([i \in 1..Len(results) |->
                     [key |-> results[i].key,
                      value |-> Std(ReturnsOf(results[i].value))]]))

----------------------------------------------------------------------------
(* Inputs *)

\* the 4-ticker, 3-period panel of the concrete scenario; columns A, B, C, D
ScenarioPanel ==
    << <<Val(1), Val(-2), Val(3), Val(0)>>,
       <<Val(2), Val(0), Val(-1), Val(1)>>,
       <<Val(-1), Val(3), Val(0), Val(2)>> >>

\* the cells a generated panel varies
Cells == {NaN} \cup {Val(v) : v \in (-MaxRet)..MaxRet}

\* the return of ticker k at period t in the generated panels: "zero" is
\* all ties, "ramp" a fixed order of the tickers, "wave" an order that
\* changes from period to period
Bases == {"zero", "ramp", "wave"}

BaseReturn(base, t, k) ==
    CASE base = "zero" -> 0
      [] base = "ramp" -> k - 2
      [] base = "wave" -> ((t + k) % 3) - 1

\* a panel of len periods that follows a base, but for the cell c of
\* ticker s in its last period
GenPanel(base, len, s, c) ==
    Tup([t \in 1..len |->
            Tup([k \in 1..NumTickers |->
                    IF t = len /\ k = s THEN c ELSE Val(BaseReturn(base, t, k))])])

\* a panel with a full window, then a period in which every ticker has no
\* value, then a full window again
GapPanel(base) ==
    Tup([t \in 1..(2 * Window + 1) |->
            Tup([k \in 1..NumTickers |->
                    IF t = Window + 1 THEN NaN ELSE Val(BaseReturn(base, t, k))])])

\* the lengths of the generated panels: too short for a signal, exactly
\* one window, one window and a period
Lens == {3, Window, Window + 1}

\* the panels of the allocation and performance pipeline
WidePanels ==
    {ScenarioPanel}
    \cup {GenPanel(base, len, s, c) :
            base \in Bases, len \in Lens, s \in 1..NumTickers, c \in Cells}
    \cup {GapPanel(base) : base \in Bases}

\* the panels of the engine's life cycle: the concrete scenario, twelve
\* periods of zero then a spike, a ticker that loses its last return, a
\* panel too short for a momentum signal
Panels ==
    { ScenarioPanel,
      GenPanel("zero", Window + 1, 1, Val(MaxRet)),
      GenPanel("wave", Window + 1, NumTickers, NaN),
      GenPanel("ramp", 3, 1, Val(0)) }

\* the panels the result store is filled from: one with a momentum signal
\* in its last two periods, one too short for a signal
StorePanels ==
    { GenPanel("wave", Window + 1, NumTickers, NaN),
      GenPanel("ramp", 3, 1, Val(0)) }

\* the percentiles a caller passes to one allocator: MaxPct is outside
\* [0, 100]; a percentile too small to select one of MaxTickers tickers
\* acts as 0 does
Pcts == {0, 50, 75, 100, MaxPct}

\* the (top_percentile, bottom_percentile) pairs of the pipeline
WideBands == Pcts \X Pcts

\* the (top_percentile, bottom_percentile) pairs of the engine's life cycle
Bands == {<<50, 0>>, <<0, 50>>, <<100, 50>>, <<10, 0>>}

\* the lists handed to construct_performances_for_percentiles
BandLists ==
    { <<>>,
      << <<10, 0>>, <<20, 0>> >>,
      << <<0, 50>>, <<50, 0>> >>,
      << <<50, 0>>, <<50, 0>> >> }

\* the lists of a run whose steps are interleaved: two bands that hold
\* different tickers, two that hold the same, two that hold none
InterleavedBandLists ==
    { << <<50, 0>>, <<100, 50>> >>,
      << <<0, 50>>, <<50, 0>> >>,
      << <<10, 0>>, <<20, 0>> >> }

\* the length of the longest of these lists
MaxBands ==
    CHOOSE n \in 0..Cardinality(BandLists) * 4 :
        /\ \E percentiles \in BandLists \cup InterleavedBandLists : Len(percentiles) = n
        /\ \A percentiles \in BandLists \cup InterleavedBandLists : Len(percentiles) <= n

----------------------------------------------------------------------------
(* The engine *)

\* no scenario run is under way
NoLoop == [bands |-> <<>>, pc |-> <<>>, perf_df |-> <<>>]

\* __init__
Init ==
    /\ data = NoFrame
    /\ weights = NoFrame
    /\ performance = NoFrame
    /\ percentile_results = <<>>
    /\ last = Call("init", 0, 0, <<>>, FALSE)
    /\ weights_by = Call("None", 0, 0, <<>>, FALSE)
    /\ tie_break \in TieBreaks
    /\ identity = [performance |-> NoObject, percentile_results |-> <<>>]
    /\ returned = ReturnedNone
    /\ loop = NoLoop

\* fetch_data: the pivoted query result becomes self.data
FetchData(panel) ==
    /\ data' = Frame(panel)
    /\ last' = Call("fetch_data", 0, 0, <<>>, FALSE)
    /\ returned' = ReturnedNone
    /\ UNCHANGED loop
    /\ UNCHANGED <<weights, performance, percentile_results, weights_by, tie_break,
                   identity>>

\* the end of both allocators: self.weights = pd.DataFrame(rows), then
\* set_index("date"), which raises KeyError on a frame built from no rows
SetWeights(rows) == IF Len(rows) = 0 THEN EmptyFrame ELSE Frame(rows)

\* compute_weights_last_month_direction(top_percentile, bottom_percentile)
ComputeWeightsLastMonthDirection(top_percentile, bottom_percentile) ==
    /\ IF data.kind = "None"
       THEN /\ last' = Call("last_month_direction", top_percentile, bottom_percentile, <<>>, TRUE)
            /\ UNCHANGED <<weights, weights_by>>
       ELSE LET rows == LastMonthDirectionRows(data.rows, top_percentile,
                                               bottom_percentile, tie_break)
            IN  /\ weights' = SetWeights(rows)
                /\ last' = Call("last_month_direction", top_percentile,
                                bottom_percentile, <<>>, Len(rows) = 0)
                /\ weights_by' = last'
    /\ returned' = IF last'.raised THEN Raised ELSE ReturnedNone
    /\ UNCHANGED loop
    /\ UNCHANGED <<data, performance, percentile_results, tie_break, identity>>

\* compute_weight_momentum_12_minus_1(top_percentile, bottom_percentile)
ComputeWeightMomentum12Minus1(top_percentile, bottom_percentile) ==
    /\ IF data.kind = "None"
       THEN /\ last' = Call("momentum_12_minus_1", top_percentile, bottom_percentile, <<>>, TRUE)
            /\ UNCHANGED <<weights, weights_by>>
       ELSE LET rows == MomentumRows(data.rows, top_percentile,
                                     bottom_percentile, tie_break)
            IN  /\ weights' = SetWeights(rows)
                /\ last' = Call("momentum_12_minus_1", top_percentile,
                                bottom_percentile, <<>>, Len(rows) = 0)
                /\ weights_by' = last'
    /\ returned' = IF last'.raised THEN Raised ELSE ReturnedNone
    /\ UNCHANGED loop
    /\ UNCHANGED <<data, performance, percentile_results, tie_break, identity>>

\* mutant: only the panel is looked for
DataMissing(w, d) == d.kind = "None"

\* self.weights is None or self.data is None
WeightsOrDataMissing(w, d) == w.kind = "None" \/ d.kind = "None"

\* compute_index_level_and_returns(start_index=100): self.performance is a
\* new DataFrame (the one it named before is released), filled in and
\* returned
ComputeIndexLevelAndReturns ==
    /\ IF WeightsOrDataMissing(weights, data)
       THEN /\ last' = Call("index_level_and_returns", 0, 0, <<>>, TRUE)
            /\ returned' = Raised
            /\ UNCHANGED <<performance, identity>>
       ELSE /\ performance' =
                   Frame(ComputePerformance(weights.rows, data.rows, StartIndexValue))
            /\ identity' = [identity EXCEPT !.performance = NewObject(Held(identity))]
            /\ last' = Call("index_level_and_returns", 0, 0, <<>>, FALSE)
            /\ returned' = ReturnedObject(identity'.performance)
    /\ UNCHANGED loop
    /\ UNCHANGED <<data, weights, percentile_results, weights_by, tie_break>>

\* construct_performances_for_percentiles(percentiles)
ConstructPerformancesForPercentiles(percentiles) ==
    /\ IF data.kind = "None"
       THEN /\ last' = Call("performances_for_percentiles", 0, 0, percentiles, TRUE)
            /\ UNCHANGED <<weights, performance, percentile_results, weights_by,
                           identity>>
       ELSE LET out == RunPercentiles(data.rows, percentiles, 1,
                           [weights |-> weights, weights_by |-> weights_by,
                            performance |-> performance,
                            percentile_results |-> ResultsReset(percentile_results),
                            identity |->
                                [identity EXCEPT !.percentile_results = ResultsReset(@)],
                            raised |-> FALSE],
                           tie_break)
            IN  /\ weights' = out.weights
                /\ weights_by' = out.weights_by
                /\ performance' = out.performance
                /\ percentile_results' = out.percentile_results
                /\ identity' = out.identity
                /\ last' = Call("performances_for_percentiles", 0, 0, percentiles, out.raised)
    /\ returned' = IF last'.raised THEN Raised ELSE ReturnedNone
    /\ UNCHANGED loop
    /\ UNCHANGED <<data, tie_break>>

\* construct_portfolio_average_holding_period_returns()
ConstructPortfolioAverageHoldingPeriodReturns ==
    /\ last' = Call("average_holding_period_returns", 0, 0, <<>>, FALSE)
    /\ returned' = AverageHoldingPeriodReturns(percentile_results)
    /\ UNCHANGED loop
    /\ UNCHANGED <<data, weights, performance, percentile_results, weights_by,
                   tie_break, identity>>

\* construct_portfolio_average_standard_deviation_for_holding_period_return()
ConstructPortfolioAverageStandardDeviationForHoldingPeriodReturn ==
    /\ last' = Call("average_standard_deviation", 0, 0, <<>>, FALSE)
    /\ returned' = AverageStandardDeviation(percentile_results)
    /\ UNCHANGED loop
    /\ UNCHANGED <<data, weights, performance, percentile_results, weights_by,
                   tie_break, identity>>

\* a caller empties, in place, the series stored under the i-th label
\* (df.drop(df.index, inplace=True)): every field that names the same
\* object shows the change
DropRowsOfStoredSeries(i) ==
    /\ i \in 1..Len(percentile_results)
    /\ Len(percentile_results[i].value) > 0
    /\ LET obj == identity.percentile_results[i].value
       IN  /\ percentile_results' =
                  Tup([j \in 1..Len(percentile_results) |->
                          IF identity.percentile_results[j].value = obj
                          THEN [percentile_results[j] EXCEPT !.value = <<>>]
                          ELSE percentile_results[j]])
           /\ performance' =
                  IF identity.performance = obj THEN Frame(<<>>) ELSE performance
    /\ last' = Call("drop_rows_of_stored_series", 0, 0, <<i>>, FALSE)
    /\ returned' = ReturnedNone
    /\ UNCHANGED loop
    /\ UNCHANGED <<data, weights, weights_by, tie_break, identity>>

\* the objects the perf_df of the bands under way name
Borrowed(lp) == {lp.perf_df[b].obj : b \in 1..Len(lp.perf_df)} \ {NoObject}

\* construct_performances_for_percentiles(percentiles) up to its loop, the
\* passes of which are then taken step by step, one band at a time or
\* several at once
StartPercentiles(percentiles) ==
    /\ data.kind = "frame"
    /\ loop = NoLoop
    /\ percentile_results' = ResultsReset(percentile_results)
    /\ identity' = [identity EXCEPT !.percentile_results = ResultsReset(@)]
    /\ loop' = [bands |-> percentiles,
                pc |-> Tup([b \in 1..Len(percentiles) |-> "weights"]),
                perf_df |-> Tup([b \in 1..Len(percentiles) |->
                                    [obj |-> NoObject, rows |-> <<>>]])]
    /\ last' = Call("start_percentiles", 0, 0, percentiles, FALSE)
    /\ returned' = ReturnedNone
    /\ UNCHANGED <<data, weights, performance, weights_by, tie_break>>

\* step 1 of the pass of band b: self.compute_weight_momentum_12_minus_1
BandWeights(b) ==
    /\ b \in 1..Len(loop.bands)
    /\ loop.pc[b] = "weights"
    /\ LET rows == MomentumRows(data.rows, loop.bands[b][1], loop.bands[b][2], tie_break)
       IN  /\ weights' = SetWeights(rows)
           /\ weights_by' = MomentumCall(loop.bands[b][1], loop.bands[b][2], Len(rows) = 0)
           /\ last' = Call("band_weights", loop.bands[b][1], loop.bands[b][2], <<b>>,
                           Len(rows) = 0)
           /\ loop' = [loop EXCEPT !.pc[b] = IF Len(rows) = 0 THEN "raised"
                                                             ELSE "performance"]
    /\ returned' = IF last'.raised THEN Raised ELSE ReturnedNone
    /\ UNCHANGED <<data, performance, percentile_results, tie_break, identity>>

\* step 2 of the pass of band b: perf_df =
\* self.compute_index_level_and_returns(start_index=100), on the weights
\* self.weights holds now
BandPerformance(b) ==
    /\ b \in 1..Len(loop.bands)
    /\ loop.pc[b] = "performance"
    /\ performance' = Frame(ComputePerformance(weights.rows, data.rows, StartIndexValue))
    /\ identity' = [identity EXCEPT
                       !.performance = NewObject(Held(identity) \cup Borrowed(loop))]
    /\ loop' = [loop EXCEPT !.pc[b] = "store",
                            !.perf_df[b] = [obj |-> identity'.performance,
                                            rows |-> performance'.rows]]
    /\ last' = Call("band_performance", loop.bands[b][1], loop.bands[b][2], <<b>>, FALSE)
    /\ returned' = ReturnedObject(identity'.performance)
    /\ UNCHANGED <<data, weights, percentile_results, weights_by, tie_break>>

\* step 3 of the pass of band b: self.percentile_results[key_name] =
\* perf_df.copy()
BandStore(b) ==
    /\ b \in 1..Len(loop.bands)
    /\ loop.pc[b] = "store"
    /\ percentile_results' =
           DictPut(percentile_results, KeyName(loop.bands[b][1], loop.bands[b][2]),
                   loop.perf_df[b].rows)
    /\ identity' = [identity EXCEPT !.percentile_results =
                       DictPut(@, KeyName(loop.bands[b][1], loop.bands[b][2]),
                               Copy(loop.perf_df[b].obj,
                                    Live(identity) \cup Borrowed(loop)))]
    /\ loop' = [loop EXCEPT !.pc[b] = "done",
                            !.perf_df[b] = [obj |-> NoObject, rows |-> <<>>]]
    /\ last' = Call("band_store", loop.bands[b][1], loop.bands[b][2], <<b>>, FALSE)
    /\ returned' = ReturnedNone
    /\ UNCHANGED <<data, weights, performance, weights_by, tie_break>>

Next ==
    \/ /\ data.kind = "None"
       /\ \E panel \in Panels : FetchData(panel)
    \/ \E band \in Bands : ComputeWeightsLastMonthDirection(band[1], band[2])
    \/ \E band \in Bands : ComputeWeightMomentum12Minus1(band[1], band[2])
    \/ ComputeIndexLevelAndReturns
    \/ \E percentiles \in BandLists : ConstructPerformancesForPercentiles(percentiles)

\* the engine's life cycle: a panel is loaded once, then any call in any
\* order
Spec == Init /\ [][Next]_vars

\* one pass of the pipeline on a wide range of panels and bands: a panel
\* is loaded, one allocator runs, the performance is computed
NextPipeline ==
    \/ /\ data.kind = "None"
       /\ \E panel \in WidePanels : FetchData(panel)
    \/ /\ weights.kind = "None"
       /\ \E band \in WideBands : ComputeWeightsLastMonthDirection(band[1], band[2])
    \/ /\ weights.kind = "None"
       /\ \E band \in WideBands : ComputeWeightMomentum12Minus1(band[1], band[2])
    \/ /\ performance.kind = "None"
       /\ ComputeIndexLevelAndReturns

SpecPipeline == Init /\ [][NextPipeline]_vars

\* the result store and its readers: a panel is loaded, and loaded again,
\* scenario runs, the two statistics, a recomputation of the performance,
\* and a caller that changes a stored series in place
NextStore ==
    \/ \E panel \in StorePanels : FetchData(panel)
    \/ \E percentiles \in BandLists : ConstructPerformancesForPercentiles(percentiles)
    \/ ComputeIndexLevelAndReturns
    \/ ConstructPortfolioAverageHoldingPeriodReturns
    \/ ConstructPortfolioAverageStandardDeviationForHoldingPeriodReturn
    \/ \E i \in 1..MaxBands : DropRowsOfStoredSeries(i)

SpecStore == Init /\ [][NextStore]_vars

\* one scenario run whose per-band steps are interleaved in any order
NextInterleaved ==
    \/ /\ data.kind = "None"
       /\ \E panel \in Panels : FetchData(panel)
    \/ \E percentiles \in InterleavedBandLists : StartPercentiles(percentiles)
    \/ \E b \in 1..MaxBands : BandWeights(b)
    \/ \E b \in 1..MaxBands : BandPerformance(b)
    \/ \E b \in 1..MaxBands : BandStore(b)

SpecInterleaved == Init /\ [][NextInterleaved]_vars

----------------------------------------------------------------------------
(* Properties *)

\* the rows the allocator of a call record appends on a panel
AllocatorRows(call, panel, tb) ==
    IF call.op = "last_month_direction"
    THEN LastMonthDirectionRows(panel, call.top, call.bottom, tb)
    ELSE MomentumRows(panel, call.top, call.bottom, tb)

\* the signal row an allocator ranks at period t
SignalRow(call, panel, t) ==
    IF call.op = "last_month_direction"
    THEN panel[t]
    ELSE Tup([k \in 1..Len(panel[t]) |-> SignalCell(panel, t, k)])

\* a weight row as a row of cells
AsCells(w) == Tup([k \in 1..Len(w) |-> Val(w[k])])

\* the sum over the tickers of weight times return, no-value returns skipped
PortfolioReturn(w, returns) ==
    SumTo([k \in 1..Len(w) |-> IF IsNaN(returns[k]) THEN 0 ELSE w[k] * Get(returns[k])],
          Len(w))

\* the compounder has just run on a weight table
Compounded ==
    /\ last.op = "index_level_and_returns"
    /\ ~last.raised
    /\ weights.kind = "frame"

\* an allocator has just written a weight table
Allocated ==
    /\ last.op \in {"last_month_direction", "momentum_12_minus_1"}
    /\ ~last.raised

\* both band values of a call are in [0, 100]
BandInRange(call) == call.top \in 0..100 /\ call.bottom \in 0..100

C2_LagIsOnePeriod ==
    Compounded =>
        \A i \in 2..Len(weights.rows) :
            \E j \in 1..Len(weights.rows) :
                /\ weights.rows[j].date = weights.rows[i].date - 1
                /\ ShiftedWeights(weights.rows)[i].w = AsCells(weights.rows[j].w)

\* C3: the concrete scenario.  On the 4-ticker, 3-period panel with band
\* (50, 0) and the raw signal, period 1 ranks C > A > D > B, the weight row
\* of period 1 is C = 0.5, A = 0.5, D = 0, B = 0, and the portfolio return
\* of period 2 is 0.005 (half a unit of 0.01).
C3_ConcreteScenario ==
    (/\ data = Frame(ScenarioPanel)
     /\ weights.kind = "frame"
     /\ weights_by = Call("last_month_direction", 50, 0, <<>>, FALSE)) =>
        /\ SortValues(data.rows[1], tie_break) = <<3, 1, 4, 2>>
        /\ weights.rows[1].date = 1
        /\ weights.rows[1].w = <<Scale \div 2, 0, Scale \div 2, 0>>
        /\ Compounded =>
               /\ performance.rows[2].date = 2
               /\ 2 * performance.rows[2].portfolio_log_return = Scale

\* C3 witness: the scenario has been run through the compounder
C3_Witness ==
    /\ data = Frame(ScenarioPanel)
    /\ weights_by = Call("last_month_direction", 50, 0, <<>>, FALSE)
    /\ Compounded
    /\ Len(performance.rows) >= 2


\* the call with its two band values exchanged
Swapped(call) == [call EXCEPT !.top = call.bottom, !.bottom = call.top]

\* C4: band order-invariance.  The weight table an allocator leaves after
\* a call with (top, bottom) is the table the same allocator builds with
\* (bottom, top): same periods, same tickers, same weights.
C4_BandOrderInvariance ==
    (data.kind = "frame"
        /\ last.op \in {"last_month_direction", "momentum_12_minus_1"}) =>
        weights = SetWeights(AllocatorRows(Swapped(last), data.rows, tie_break))

\* C4 witness: an allocator was called with the smaller value first and
\* gave some ticker a weight
C4_Witness ==
    /\ Allocated
    /\ last.top < last.bottom
    /\ \E i \in 1..Len(weights.rows) :
           \E k \in 1..Len(weights.rows[i].w) : weights.rows[i].w[k] > 0

\* the total of a weight row
RowTotal(w) == SumTo(w, Len(w))

\* C5: with both band values in [0, 100], the weights of every emitted
\* row add up to 0 or to 1.
C5_RowTotalZeroOrOne ==
    (Allocated /\ BandInRange(last)) =>
        \A i \in 1..Len(weights.rows) : RowTotal(weights.rows[i].w) \in {0, Scale}

\* C5 witness: a band that does not start at the top holds several
\* tickers, fully invested
C5_Witness ==
    /\ Allocated
    /\ BandInRange(last)
    /\ PctMin(last.top, last.bottom) > 0
    /\ \E i \in 1..Len(weights.rows) :
           /\ RowTotal(weights.rows[i].w) = Scale
           /\ \E k \in 1..Len(weights.rows[i].w) :
                  weights.rows[i].w[k] \notin {0, Scale}

\* C6: the selection slice.  In every emitted row, with l the number of
\* tickers that have a signal value and the band in [0, 100], the tickers
\* at positions floor(low * l / 100) <= p < floor(high * l / 100) of the
\* descending order of the signal hold 1 / (end - start) each and every
\* other ticker holds 0.
C6_SelectionSlice ==
    (Allocated /\ BandInRange(last)) =>
        \A i \in 1..Len(weights.rows) :
            \A sig \in {SignalRow(last, data.rows, weights.rows[i].date)} :
                \A order \in {SortValues(sig, tie_break)} :
                    \A start \in {(PctMin(last.top, last.bottom) * CountValued(sig)) \div 100} :
                        \A end \in {(PctMax(last.top, last.bottom) * CountValued(sig)) \div 100} :
                            \A k \in 1..Len(sig) :
                                weights.rows[i].w[k] =
                                    IF \E p \in (start + 1)..end : order[p] = k
                                    THEN Scale \div (end - start)
                                    ELSE 0

\* C7: the 12-1 signal.  Where a ticker has all twelve returns of the
\* window that ends at T, its signal at T is the sum of the eleven returns
\* of T-11..T-1, it is the same whatever the return of T is, and after
\* twelve periods of zero return it is 0 at the thirteenth whatever that
\* period's return.
C7_MomentumSignal ==
    (last.op = "momentum_12_minus_1" /\ data.kind = "frame") =>
        \A t \in Window..Len(data.rows) :
            \A k \in 1..Len(data.rows[t]) :
                (\A u \in (t - Window + 1)..t : NotNaN(data.rows[u][k])) =>
                    /\ SignalCell(data.rows, t, k) =
                           Val(SumTo([i \in 1..(Window - 1) |->
                                         Get(data.rows[t - Window + i][k])],
                                     Window - 1))
                    /\ \A v \in (-MaxRet)..MaxRet :
                           SignalCell([data.rows EXCEPT ![t][k] = Val(v)], t, k) =
                               SignalCell(data.rows, t, k)
                    /\ (/\ t > Window
                        /\ \A u \in (t - Window)..(t - 1) : data.rows[u][k] = Val(0)) =>
                           SignalCell(data.rows, t, k) = Val(0)

\* C7 witness: twelve periods of zero, a spike at the thirteenth, and the
\* momentum allocator has ranked the thirteenth period on a signal of 0
C7_Witness ==
    /\ last.op = "momentum_12_minus_1"
    /\ ~last.raised
    /\ Len(data.rows) = Window + 1
    /\ \E k \in 1..Len(data.rows[1]) :
           /\ \A u \in 1..Window : data.rows[u][k] = Val(0)
           /\ NotNaN(data.rows[Window + 1][k])
           /\ data.rows[Window + 1][k] # Val(0)
           /\ SignalCell(data.rows, Window + 1, k) = Val(0)
    /\ \E i \in 1..Len(weights.rows) : weights.rows[i].date = Window + 1

\* C8: insufficient history.  A period with fewer than 12 periods before
\* it has no signal for any ticker and no weight row.
C8_InsufficientHistory ==
    (last.op = "momentum_12_minus_1" /\ data.kind = "frame") =>
        \A t \in 1..Len(data.rows) :
            (t - 1 < 12) =>
                /\ \A k \in 1..Len(data.rows[t]) : IsNaN(SignalCell(data.rows, t, k))
                /\ \A i \in 1..Len(weights.rows) : weights.rows[i].date # t

\* C9: the performance series has a row for a period only if a lagged
\* weight row exists for it.
C9_RowsOnlyWithLaggedWeights ==
    Compounded =>
        \A j \in 1..Len(performance.rows) :
            \E i \in 2..Len(weights.rows) :
                weights.rows[i].date = performance.rows[j].date

\* no pair occurs twice in a list of bands
PairwiseDistinct(bands) ==
    \A i, j \in 1..Len(bands) : i # j => bands[i] # bands[j]

\* C10: scenario keys.  After a run that completes on pairwise distinct
\* pairs, the store has one key per pair, in the order of the list, each
\* the label of the pair's values as the caller wrote them; the list
\* (10, 0), (20, 0) gives the two keys of (10, 0) and (20, 0).
C10_ScenarioKeys ==
    (/\ last.op = "performances_for_percentiles"
     /\ ~last.raised
     /\ PairwiseDistinct(last.bands)) =>
        /\ Len(percentile_results) = Len(last.bands)
        /\ \A i \in 1..Len(percentile_results) :
               percentile_results[i].key =
                   "Top " \o ToString(last.bands[i][1]) \o "% / Bottom "
                          \o ToString(last.bands[i][2]) \o "%"
        /\ last.bands = << <<10, 0>>, <<20, 0>> >> =>
               /\ Len(percentile_results) = 2
               /\ percentile_results[1].key = "Top 10% / Bottom 0%"
               /\ percentile_results[2].key = "Top 20% / Bottom 0%"

\* C10 witness: a completed run on (10, 0), (20, 0)
C10_Witness ==
    /\ last.op = "performances_for_percentiles"
    /\ ~last.raised
    /\ last.bands = << <<10, 0>>, <<20, 0>> >>
    /\ Len(percentile_results) = 2

\* the objects stored under the labels are pairwise different objects, and
\* none of them is the object self.performance names
StoredSeriesAreOwnObjects(ids) ==
    /\ \A i, j \in 1..Len(ids.percentile_results) :
           i # j => ids.percentile_results[i].value # ids.percentile_results[j].value
    /\ \A i \in 1..Len(ids.percentile_results) :
           ids.percentile_results[i].value # ids.performance

\* C11: non-aliasing of scenario results.  The series stored under the
\* labels are objects of their own, none of them the engine's performance
\* field; a step that changes the series of one label in place changes no
\* other label's series and not the performance field, and a recomputation
\* of the performance field changes no stored series.
C11_NonAliasing ==
    [][/\ StoredSeriesAreOwnObjects(identity')
       /\ last'.op = "drop_rows_of_stored_series" =>
              /\ performance' = performance
              /\ \A j \in 1..Len(percentile_results) :
                     j # last'.bands[1] => percentile_results'[j] = percentile_results[j]
       /\ last'.op = "index_level_and_returns" =>
              percentile_results' = percentile_results]_vars

\* C11 witness: of two stored series one was emptied in place, the other
\* and the performance field still have their rows
C11_Witness ==
    /\ last.op = "drop_rows_of_stored_series"
    /\ Len(percentile_results) = 2
    /\ Len(percentile_results[last.bands[1]].value) = 0
    /\ \E j \in 1..2 : Len(percentile_results[j].value) > 0
    /\ Len(performance.rows) > 0

\* the labels of a store
KeySet(results) == {results[i].key : i \in 1..Len(results)}

\* the labels of a list of pairs
LabelSet(bands) ==
    {"Top " \o ToString(bands[i][1]) \o "% / Bottom " \o ToString(bands[i][2]) \o "%" :
        i \in 1..Len(bands)}

\* C12: store overwrite.  The store holds exactly the labels of the most
\* recent completed run: a run that completes leaves one entry for each
\* label of its list and no other, and no other step changes the labels of
\* the store.
C12_StoreOverwrite ==
    [][IF last'.op = "performances_for_percentiles" /\ ~last'.raised
       THEN /\ KeySet(percentile_results') = LabelSet(last'.bands)
            /\ Len(percentile_results') = Cardinality(LabelSet(last'.bands))
       ELSE KeySet(percentile_results') = KeySet(percentile_results)]_vars

\* the step raised and left the four fields of the engine as they were
FailedFast ==
    /\ last'.raised
    /\ returned' = Raised
    /\ UNCHANGED <<data, weights, performance, percentile_results>>

\* C13: precondition violations fail fast.  An allocator or the scenario
\* runner called while no panel is loaded, and the compounder called while
\* the weights or the panel are missing, raises, and data, weights,
\* performance and the result store are after the call what they were
\* before it.
C13_PreconditionsFailFast ==
    [][/\ (/\ last'.op \in {"last_month_direction", "momentum_12_minus_1",
                            "performances_for_percentiles"}
           /\ data.kind = "None") => FailedFast
       /\ (/\ last'.op = "index_level_and_returns"
           /\ (weights.kind = "None" \/ data.kind = "None")) => FailedFast]_vars

\* C13 witness: the compounder was refused on a loaded panel for which no
\* weights had been computed
C13_Witness ==
    /\ last.op = "index_level_and_returns"
    /\ last.raised
    /\ data.kind = "frame"
    /\ weights.kind = "None"
    /\ performance.kind = "None"

\* C14: NoScenariosRun.  Each of the two statistics accessors, called
\* while the store is empty, returns None, and called while it is not,
\* returns one entry for each label of the store, in the store's order; it
\* never raises and leaves data, weights, performance and the store as
\* they were.
C14_NoScenariosRun ==
    [][last'.op \in {"average_holding_period_returns", "average_standard_deviation"} =>
           /\ ~last'.raised
           /\ returned' # Raised
           /\ UNCHANGED <<data, weights, performance, percentile_results>>
           /\ IF Len(percentile_results) = 0
              THEN returned' = ReturnedNone
              ELSE /\ returned'.kind \notin {"None", "raised", "object"}
                   /\ Len(returned'.entries) = Len(percentile_results)
                   /\ \A i \in 1..Len(percentile_results) :
                          returned'.entries[i].key = percentile_results[i].key]_vars

\* C14 witness: the average return was asked for on a loaded engine whose
\* store is empty, and None came back
C14_Witness ==
    /\ last.op = "average_holding_period_returns"
    /\ data.kind = "frame"
    /\ percentile_results = <<>>
    /\ returned = ReturnedNone

\* C15: no-value tickers are not eligible in the raw allocator.  In every
\* row compute_weights_last_month_direction emits for a band in [0, 100],
\* a ticker whose return is no-value holds weight 0, and the row is the one
\* obtained with l the number of tickers that have a value.
C15_NoValueNotEligible ==
    (Allocated /\ last.op = "last_month_direction" /\ BandInRange(last)) =>
        \A i \in 1..Len(weights.rows) :
            \A sig \in {data.rows[weights.rows[i].date]} :
                /\ \A k \in 1..Len(sig) : IsNaN(sig[k]) => weights.rows[i].w[k] = 0
                /\ weights.rows[i].w =
                       TickerToWeight(SortValues(sig, tie_break), CountValued(sig),
                                      PctMin(last.top, last.bottom),
                                      PctMax(last.top, last.bottom))

\* C16: all-absent signal rows are skipped.  The weight table of either
\* allocator has no row for a period whose signal is no-value for every
\* ticker.
C16_AllAbsentRowsSkipped ==
    Allocated =>
        \A i \in 1..Len(weights.rows) :
            ~AllNull(SignalRow(last, data.rows, weights.rows[i].date))

\* the band of a call selects no position among l ranked tickers
SelectsNothing(call, l) ==
    (PctMax(call.top, call.bottom) * l) \div 100 = (PctMin(call.top, call.bottom) * l) \div 100

\* C17: EmptySelection.  Where floor(high * l / 100) = floor(low * l / 100)
\* for the number l of eligible tickers of a period, the allocator has not
\* failed, the row it emitted for the period holds 0 for every ticker, and
\* the portfolio return computed from that row for the following row's
\* period is 0.
C17_EmptySelection ==
    (weights.kind = "frame" /\ BandInRange(weights_by)) =>
        /\ ~weights_by.raised
        /\ \A i \in 1..Len(weights.rows) :
               SelectsNothing(weights_by,
                              CountValued(SignalRow(weights_by, data.rows,
                                                    weights.rows[i].date))) =>
                   /\ \A k \in 1..Len(weights.rows[i].w) : weights.rows[i].w[k] = 0
                   /\ (Compounded /\ i < Len(weights.rows)) =>
                          \E j \in 1..Len(performance.rows) :
                              /\ performance.rows[j].date = weights.rows[i + 1].date
                              /\ performance.rows[j].portfolio_log_return = 0

\* no ticker has a momentum signal in any period of the panel
NoSignal(panel) ==
    \A t \in 1..Len(panel) : \A k \in 1..Len(panel[t]) : IsNaN(SignalCell(panel, t, k))

\* C18: graceful degradation on short panels.  On a loaded panel the
\* momentum allocator and the scenario runner do not raise; where no period
\* has a momentum signal the allocator leaves a weight table without rows
\* and the runner stores, for each requested band, a performance series
\* without rows.
C18_GracefulDegradation ==
    (data.kind = "frame"
        /\ last.op \in {"momentum_12_minus_1", "performances_for_percentiles"}) =>
        /\ ~last.raised
        /\ NoSignal(data.rows) =>
               /\ last.op = "momentum_12_minus_1" =>
                      weights.kind = "frame" /\ Len(weights.rows) = 0
               /\ last.op = "performances_for_percentiles" =>
                      /\ KeySet(percentile_results) = LabelSet(last.bands)
                      /\ \A i \in 1..Len(percentile_results) :
                             Len(percentile_results[i].value) = 0

\* every row of a series has, as its cumulative log return, the sum of the
\* portfolio returns of the rows up to it
IsRunningSum(rows) ==
    \A i \in 1..Len(rows) :
        rows[i].cumulative_log_return =
            SumTo([j \in 1..Len(rows) |-> rows[j].portfolio_log_return], i)

\* C19: cumulative return.  In the performance field and in every stored
\* series the cumulative log return of a row is the sum of the portfolio
\* returns of that row and the rows before it; and the compounder builds
\* the series anew: run again on the same weights and panel it gives the
\* same series, whatever series was there before.
C19_CumulativeReturn ==
    [][/\ IsRunningSum(performance'.rows)
       /\ \A i \in 1..Len(percentile_results') :
              IsRunningSum(percentile_results'[i].value)
       /\ (/\ last'.op = "index_level_and_returns"
           /\ ~last'.raised
           /\ last.op = "index_level_and_returns"
           /\ ~last.raised) => performance' = performance]_vars

\* C19 witness: a series the compounder built in which the returns have
\* added up to something else than the last return
C19_Witness ==
    /\ Compounded
    /\ \E i \in 2..Len(performance.rows) :
           /\ performance.rows[i].portfolio_log_return # 0
           /\ performance.rows[i].cumulative_log_return #
                  performance.rows[i].portfolio_log_return

\* every row of a series has, as its index level, 100 times e to the sum
\* of the portfolio returns of the rows up to it
IsIndexOfReturns(rows) ==
    \A i \in 1..Len(rows) :
        /\ rows[i].index_level.start = 100
        /\ rows[i].index_level.exp_of =
               SumTo([j \in 1..Len(rows) |-> rows[j].portfolio_log_return], i)

\* C20: index-level round trip.  In the performance field and in every
\* stored series, computed with start value 100, the index level of a row
\* is 100 * exp(the sum of portfolio_log_return up to that row).
C20_IndexLevelRoundTrip ==
    /\ IsIndexOfReturns(performance.rows)
    /\ \A i \in 1..Len(percentile_results) :
           IsIndexOfReturns(percentile_results[i].value)

\* C20 witness: a series the compounder built whose index has left 100
C20_Witness ==
    /\ Compounded
    /\ \E i \in 2..Len(performance.rows) :
           /\ performance.rows[i].index_level.exp_of # 0
           /\ performance.rows[i].index_level.exp_of #
                  performance.rows[i].portfolio_log_return

\* the place of ticker k in a ranking
PlaceOf(order, k) == CHOOSE p \in 1..Len(order) : order[p] = k

SequentialSeries(panel, band, tb) ==
    ComputePerformance(MomentumRows(panel, band[1], band[2], tb), panel, 100)

\* C22: band independence under interleaving.  However the steps of the
\* bands of a run are interleaved, the series a band has stored under
\* its label is the series a sequential run stores for that band.
C22_BandIndependence ==
    \A b \in 1..Len(loop.bands) :
        loop.pc[b] = "done" =>
            \E i \in 1..Len(percentile_results) :
                /\ percentile_results[i].key =
                       "Top " \o ToString(loop.bands[b][1]) \o "% / Bottom "
                              \o ToString(loop.bands[b][2]) \o "%"
                /\ percentile_results[i].value =
                       SequentialSeries(data.rows, loop.bands[b], tie_break)

\* C23: weight rows omit ineligible tickers.  In every row the momentum
\* allocator emits, a ticker has a weight entry if and only if its signal
\* of that period has a value.
C23_RowsOmitIneligible ==
    (Allocated /\ last.op = "momentum_12_minus_1") =>
        \A i \in 1..Len(weights.rows) :
            \A sig \in {SignalRow(last, data.rows, weights.rows[i].date)} :
                \A k \in 1..Len(sig) :
                    k \in DOMAIN weights.rows[i].w <=> NotNaN(sig[k])

\* the tickers of a signal row that have a value
Valued(sig) == {k \in 1..Len(sig) : NotNaN(sig[k])}

\* C24: eligible count of the momentum allocator.  In every row the
\* momentum allocator emits for a band in [0, 100], with l the number of
\* tickers whose signal has a value: every no-value ticker ranks after
\* every valued one, the tickers with a non-zero weight are exactly those
\* at positions floor(low * l / 100) < p <= floor(high * l / 100) of the
\* ranking, each of them has a signal value, and each holds
\* 1 / max(1, end - start).
C24_MomentumEligibleCount ==
    (Allocated /\ last.op = "momentum_12_minus_1" /\ BandInRange(last)) =>
        \A i \in 1..Len(weights.rows) :
            \A sig \in {SignalRow(last, data.rows, weights.rows[i].date)} :
                \A order \in {SortValues(sig, tie_break)} :
                    \A l \in {Cardinality(Valued(sig))} :
                        \A start \in {(PctMin(last.top, last.bottom) * l) \div 100} :
                            \A end \in {(PctMax(last.top, last.bottom) * l) \div 100} :
                                /\ l >= 1
                                /\ \A p \in 1..Len(order) :
                                       order[p] \in Valued(sig) <=> p <= l
                                /\ \A p \in 1..Len(order) :
                                       weights.rows[i].w[order[p]] # 0 <=>
                                           p \in (start + 1)..end
                                /\ \A k \in 1..Len(sig) :
                                       weights.rows[i].w[k] # 0 =>
                                           /\ k \in Valued(sig)
                                           /\ weights.rows[i].w[k] = Scale \div Max(1, end - start)

\* the momentum allocator has emitted, for a band in [0, 100], a row of a
\* period where one ticker has no signal value and the valued ones are held
C24_Witness ==
    /\ Allocated
    /\ last.op = "momentum_12_minus_1"
    /\ BandInRange(last)
    /\ \E i \in 1..Len(weights.rows) :
           \E sig \in {SignalRow(last, data.rows, weights.rows[i].date)} :
               /\ Valued(sig) # {}
               /\ Valued(sig) # 1..Len(sig)
               /\ \A k \in Valued(sig) : weights.rows[i].w[k] # 0

====
